---- MODULE Spec2Model ----
(***************************************************************************)
(* Model of the Errands sidebar widget TaskLists                           *)
(* (errands/widgets/task_lists/task_lists.py): the ICS import handler, the *)
(* "add list" dialog, and the sidebar/store reconciliation (update_ui,     *)
(* _load_lists).                                                           *)
(*                                                                         *)
(* Python strings that the code takes apart (list names, file names, the   *)
(* text of the entry) are sequences of one-character strings.  A uuid4()   *)
(* value is one symbol "U<k>": uuid4 is modelled as a generator of values  *)
(* that never repeat and that no user types.  Identifiers that the code    *)
(* only passes around (task UIDs) are plain strings.                       *)
(***************************************************************************)
EXTENDS Integers, Sequences, FiniteSets, TLC

VARIABLES
    lists,          \* table "lists" of the store: sequence of rows
    tasks,          \* table "tasks" of the store: sequence of rows
    rows,           \* self.lists: the uids of the sidebar rows, in order
    status_visible, \* self.status_page.get_visible()
    nextId,         \* number of uuid4() values drawn so far
    dialog,         \* the "Add List" dialog: shown?, text of its entry, "add" enabled?
    last            \* what the last handler did (inputs, effects, outcome)

vars == <<lists, tasks, rows, status_visible, nextId, dialog, last>>

-----------------------------------------------------------------------------
(* Bounds *)

MaxLists == 2      \* rows of the "lists" table
MaxTodos == 2      \* VTODO components of one document
MaxTasks == 3      \* rows of the "tasks" table
MaxEntryLen == 2   \* characters typed into the "New List Name" entry
MaxStemLen == 2    \* characters of a file name before ".ics"
MaxIds == 3        \* uuid4() values drawn in one run

-----------------------------------------------------------------------------
(* Python built-ins used by the handlers *)

\* Python None (the default of todo.get("UID", None)); differs from every string used.
NoneVal == "<None>"

\* Characters str.strip() without argument removes; "NBSP" is U+00A0.
Whitespace == {" ", "\t", "\n", "NBSP"}

\* The argument of strip(" \n\t") in _entry_changed.
EntryStripChars == {" ", "\n", "\t"}

\* The argument of rstrip(".ics") in _import: a set of characters, not a suffix.
IcsChars == {".", "i", "c", "s"}

DotIcs == <<".", "i", "c", "s">>

RECURSIVE lstrip(_, _)
lstrip(s, chars) ==
    IF s # <<>> /\ Head(s) \in chars THEN lstrip(Tail(s), chars) ELSE s

RECURSIVE rstrip(_, _)
rstrip(s, chars) ==
    IF s # <<>> /\ s[Len(s)] \in chars
    THEN rstrip(SubSeq(s, 1, Len(s) - 1), chars)
    ELSE s

strip(s, chars) == lstrip(rstrip(s, chars), chars)

\* str(uuid4()): the k-th value drawn.
uuid4(k) == "U" \o ToString(k)

\* dict.get(key, default) of an icalendar component.
Get(component, key, default) ==
    IF key \in DOMAIN component THEN component[key] ELSE default

\* Decimal literals that occur in the documents of the model.
IntLiterals == ("0" :> 0) @@ ("5" :> 5) @@ ("50" :> 50) @@ ("-1" :> -1)

\* int(todo.get(key, 0)): the integer, or ValueError (ok = FALSE).
PyInt(todo, key) ==
    IF key \notin DOMAIN todo THEN [ok |-> TRUE, val |-> 0]
    ELSE IF todo[key] \in DOMAIN IntLiterals
         THEN [ok |-> TRUE, val |-> IntLiterals[todo[key]]]
         ELSE [ok |-> FALSE, val |-> 0]

-----------------------------------------------------------------------------
(* The store (errands.utils.data.UserData) *)

\* UserData.get_lists_as_dicts(): every row of "lists", deleted ones included.
get_lists_as_dicts == lists

\* UserData.run_sql("SELECT name FROM lists", fetch=True), first column.
SelectNames(ls) == { ls[i].name : i \in 1..Len(ls) }

\* UserData.add_list(name): a new row under a fresh uid.
UserData_add_list(ls, name, uid) ==
    Append(ls, [uid |-> uid, name |-> name, deleted |-> FALSE])

\* UserData.add_task(...): the row is stored under the given uid, or under a
\* fresh one when none (None or "") is given.
UserData_add_task(ts, fields, fresh) ==
    Append(ts, [fields EXCEPT !.uid =
                    IF fields.uid \in {NoneVal, ""} THEN fresh ELSE fields.uid])

TaskNeedsUid(todo) == Get(todo, "UID", NoneVal) \in {NoneVal, ""}

-----------------------------------------------------------------------------
(* Inputs *)

\* VTODO components as icalendar hands them to the handler: field name to raw value.
\* A task whose parent is not in the document.
TodoA == ("UID" :> "u1") @@ ("SUMMARY" :> "A") @@ ("RELATED-TO" :> "u9")

\* A completed child of TodoA.
TodoB ==
    ("UID" :> "u2") @@ ("SUMMARY" :> "B") @@ ("RELATED-TO" :> "u1")
      @@ ("PRIORITY" :> "5") @@ ("PERCENT-COMPLETE" :> "50") @@ ("STATUS" :> "COMPLETED")

\* No UID line, an empty RELATED-TO line, a negative priority.
TodoNoUid == ("SUMMARY" :> "C") @@ ("RELATED-TO" :> "") @@ ("PRIORITY" :> "-1")

\* A UID line without value.
TodoEmpty == ("UID" :> "") @@ ("SUMMARY" :> "D")

\* A PERCENT-COMPLETE that is no integer.
TodoNotInt == ("UID" :> "u5") @@ ("SUMMARY" :> "G") @@ ("PERCENT-COMPLETE" :> "high")

Todos == {TodoA, TodoB, TodoNoUid, TodoEmpty, TodoNotInt}

SeqsUpTo(S, n) == UNION { [1..k -> S] : k \in 0..n }

\* Documents: up to MaxTodos different components, in any order.
Documents ==
    { ts \in SeqsUpTo(Todos, MaxTodos) :
        \A i, j \in 1..Len(ts) : i # j => ts[i] # ts[j] }

\* Parsed calendars: with or without X-WR-CALNAME, and the VTODOs in document order.
Calendars ==
    { ("VTODO" :> ts) : ts \in Documents }
      \cup { ("X-WR-CALNAME" :> <<"a">>) @@ ("VTODO" :> ts) : ts \in Documents }

\* Calendars without tasks: only the name matters.
HeaderCalendars == { c \in Calendars : c["VTODO"] = <<>> }

\* Calendars that declare no name: only the tasks matter.
TaskCalendars == { c \in Calendars : "X-WR-CALNAME" \notin DOMAIN c }

\* Outcome of Calendar.from_ical on a malformed document.
ParseError == ("ParseError" :> TRUE)

\* Base names the "*.ics" file filter lets through.
Stems == SeqsUpTo({"a", "s"}, MaxStemLen) \ {<<>>}

Basenames == { stem \o DotIcs : stem \in Stems }

\* Texts of the "New List Name" entry.
EntryTexts == SeqsUpTo({"a", " ", "NBSP"}, MaxEntryLen)

\* Texts without white space.
PlainTexts == SeqsUpTo({"a"}, MaxEntryLen)

\* No store failure during an import.
NoFail == -1

-----------------------------------------------------------------------------
(* _import._confirm *)

\* Lines 55-57: the declared name, else the base name after rstrip(".ics").
CandidateName(calendar, basename) ==
    Get(calendar, "X-WR-CALNAME", rstrip(basename, IcsChars))

\* A resolver that never looks at the names in the table.
ResolveNameUnchecked(name, existing, k) == name

\* Lines 58-62: a name already in the table gets "_" and a uuid4 appended.
ResolveName(name, existing, k) ==
    IF name \in existing THEN name \o <<"_", uuid4(k)>> ELSE name

\* Arguments that leave the choice of every uid to the store.
TaskFieldsNoUid(todo, list_uid) ==
    [ completed        |-> Get(todo, "STATUS", "") = "COMPLETED",
      list_uid         |-> list_uid,
      parent           |-> Get(todo, "RELATED-TO", ""),
      percent_complete |-> PyInt(todo, "PERCENT-COMPLETE").val,
      priority         |-> PyInt(todo, "PRIORITY").val,
      text             |-> Get(todo, "SUMMARY", ""),
      uid              |-> NoneVal ]

\* Lines 97-110: the arguments of UserData.add_task for one VTODO.
TaskFields(todo, list_uid) ==
    [ completed        |-> Get(todo, "STATUS", "") = "COMPLETED",
      list_uid         |-> list_uid,
      parent           |-> Get(todo, "RELATED-TO", ""),
      percent_complete |-> PyInt(todo, "PERCENT-COMPLETE").val,
      priority         |-> PyInt(todo, "PRIORITY").val,
      text             |-> Get(todo, "SUMMARY", ""),
      uid              |-> Get(todo, "UID", NoneVal) ]

\* What a rollback of the tasks added so far would leave behind.
LoopRaisedRollback(outcome, ts, id, k) ==
    [tasks |-> SubSeq(ts, 1, Len(ts) - (k - 1)), nextId |-> id, outcome |-> outcome,
     done |-> 0]

\* Lines 66-110 have no try/except: an exception raised in the k-th iteration
\* leaves the loop and the handler, and the k-1 rows added before it stay.
LoopRaised(outcome, ts, id, k) ==
    [tasks |-> ts, nextId |-> id, outcome |-> outcome, done |-> k - 1]

\* Lines 66-110: the loop over calendar.walk("VTODO"), from the k-th component on.
\* ts is the tasks table and id the uuid counter before the k-th iteration;
\* the failAt-th call of add_task raises.
RECURSIVE AddTasks(_, _, _, _, _, _)
AddTasks(todos, k, list_uid, failAt, ts, id) ==
    IF k > Len(todos)
    THEN [tasks |-> ts, nextId |-> id, outcome |-> "ok", done |-> k - 1]
    ELSE IF ~PyInt(todos[k], "PERCENT-COMPLETE").ok \/ ~PyInt(todos[k], "PRIORITY").ok
    THEN LoopRaised("ValueError", ts, id, k)
    ELSE IF failAt = k
    THEN LoopRaised("StoreError", ts, id, k)
    ELSE AddTasks(todos, k + 1, list_uid, failAt,
                  UserData_add_task(ts, TaskFields(todos[k], list_uid), uuid4(id)),
                  IF TaskNeedsUid(todos[k]) THEN id + 1 ELSE id)

\* A handler that reaches Sync.sync() whatever happened before.
ImportLogAlwaysSync(listCreated, done, outcome) ==
    (IF listCreated THEN <<"add_list">> ELSE <<>>)
      \o [i \in 1..done |-> "add_task"]
      \o (IF outcome = "ok" THEN <<"update_ui", "toast:Imported">> ELSE <<>>)
      \o <<"sync">>

\* Calls the handler makes on its collaborators, in order: the store mutations
\* that were applied, then lines 111-113 when nothing was raised.
ImportLog(listCreated, done, outcome) ==
    (IF listCreated THEN <<"add_list">> ELSE <<>>)
      \o [i \in 1..done |-> "add_task"]
      \o (IF outcome = "ok" THEN <<"update_ui", "toast:Imported", "sync">> ELSE <<>>)

\* A handler that creates the list under the file's name before it parses.
ParseRaisedAfterList(basename, ls, ts, id) ==
    [lists |-> UserData_add_list(ls, rstrip(basename, IcsChars), uuid4(id)),
     tasks |-> ts, nextId |-> id + 1, outcome |-> "ParseError",
     log |-> ImportLog(TRUE, 0, "ParseError"),
     candidate |-> <<>>, name |-> <<>>, uid |-> "", done |-> 0]

\* Lines 52-53: Calendar.from_ical raises before any call on the store.
ParseRaised(basename, ls, ts, id) ==
    [lists |-> ls, tasks |-> ts, nextId |-> id, outcome |-> "ParseError",
     log |-> ImportLog(FALSE, 0, "ParseError"),
     candidate |-> <<>>, name |-> <<>>, uid |-> "", done |-> 0]

\* Lines 46-113 once a file was chosen: the store and the uuid counter after
\* the handler, what it called and how it ended.
Confirm(basename, parsed, failAt, ls, ts, id) ==
    LET existing  == SelectNames(ls)
        candidate == CandidateName(parsed, basename)
        name      == ResolveName(candidate, existing, id)
        id1       == IF candidate \in existing THEN id + 1 ELSE id
        uid       == uuid4(id1)
        loop      == AddTasks(parsed["VTODO"], 1, uid, failAt,
                              ts, id1 + 1)
    IN  IF parsed = ParseError
        THEN ParseRaised(basename, ls, ts, id)
        ELSE IF failAt = 0
        THEN [lists |-> ls, tasks |-> ts, nextId |-> id1, outcome |-> "StoreError",
              log |-> ImportLog(FALSE, 0, "StoreError"),
              candidate |-> candidate, name |-> name, uid |-> "", done |-> 0]
        ELSE [lists |-> UserData_add_list(ls, name, uid), tasks |-> loop.tasks,
              nextId |-> loop.nextId, outcome |-> loop.outcome,
              log |-> ImportLog(TRUE, loop.done, loop.outcome),
              candidate |-> candidate, name |-> name, uid |-> uid, done |-> loop.done]

-----------------------------------------------------------------------------
(* Sidebar *)

Range(f) == { f[i] : i \in DOMAIN f }

UidsOf(ls) == [i \in 1..Len(ls) |-> ls[i].uid]

InUids(u, uids) == u \in uids

\* update_ui, lines 304-314: rows whose uid the store no longer returns are removed.
DeleteRows(rs, ls) ==
    LET uids == Range(UidsOf(ls))
        keep(u) == InUids(u, uids)
    IN  SelectSeq(rs, keep)

\* update_ui, lines 320-329: a row is added for every returned list without one.
CreateRows(rs, ls) ==
    LET old_uids == Range(rs)
        isNew(u) == u \notin old_uids
    IN  rs \o SelectSeq(UidsOf(ls), isNew)

\* update_ui: the rows afterwards; the status page is shown iff there are none.
update_ui_rows(rs, ls) == CreateRows(DeleteRows(rs, ls), ls)

update_ui_status(rs) == Len(rs) = 0

\* _load_lists, lines 292-299: one row per list that is not deleted.
load_lists_rows(ls) ==
    LET notDeleted(l) == ~l.deleted
    IN  UidsOf(SelectSeq(ls, notDeleted))

-----------------------------------------------------------------------------
(* State machine *)

\* Record of a handler that has not (yet) filled in anything.
LastBase ==
    [ op |-> "init", outcome |-> "", log |-> <<>>,
      basename |-> <<>>, calendar |-> ParseError, failAt |-> NoFail,
      existing |-> {}, candidate |-> <<>>, name |-> <<>>, uid |-> "",
      first |-> 0, done |-> 0, text |-> <<>> ]

\* No "Add List" dialog is shown.
DialogClosed == [open |-> FALSE, text |-> <<>>, add_enabled |-> FALSE]

\* __init__ on an empty store: _load_lists finds nothing to show.
Init ==
    /\ lists = <<>>
    /\ tasks = <<>>
    /\ rows = load_lists_rows(<<>>)
    /\ status_visible = (Len(load_lists_rows(<<>>)) = 0)
    /\ nextId = 0
    /\ dialog = DialogClosed
    /\ last = LastBase

\* _confirm, lines 47-51: the file dialog was dismissed.
ImportCancelled ==
    /\ last' = [LastBase EXCEPT !.op = "import", !.outcome = "cancelled"]
    /\ UNCHANGED <<lists, tasks, rows, status_visible, nextId, dialog>>

\* _confirm, lines 52-113: a file was chosen; its base name and what
\* Calendar.from_ical makes of it are drawn from the given sets.
Import(basenames, calendars) ==
    \E basename \in basenames, parsed \in calendars \cup {ParseError} :
      \E failAt \in {NoFail} \cup (IF parsed = ParseError THEN {} ELSE 0..Len(parsed["VTODO"])) :
        /\ Len(lists) < MaxLists
        /\ Len(tasks) + (IF parsed = ParseError THEN 0 ELSE Len(parsed["VTODO"])) <= MaxTasks
        /\ \E r \in {Confirm(basename, parsed, failAt, lists, tasks, nextId)} :
            /\ r.nextId <= MaxIds
            /\ lists' = r.lists
            /\ tasks' = r.tasks
            /\ nextId' = r.nextId
            /\ rows' = IF r.outcome = "ok" THEN update_ui_rows(rows, r.lists) ELSE rows
            /\ status_visible' = IF r.outcome = "ok"
                                 THEN update_ui_status(update_ui_rows(rows, r.lists))
                                 ELSE status_visible
            /\ last' = [LastBase EXCEPT
                          !.op = "import", !.outcome = r.outcome, !.log = r.log,
                          !.basename = basename, !.calendar = parsed, !.failAt = failAt,
                          !.existing = SelectNames(lists), !.candidate = r.candidate,
                          !.name = r.name, !.uid = r.uid, !.first = Len(tasks),
                          !.done = r.done]
            /\ UNCHANGED dialog

\* on_add_btn_clicked._entry_changed, lines 235-238: is the "add" response enabled?
AddEnabled(text, ls) ==
    /\ strip(text, EntryStripChars) # <<>>
    /\ strip(text, EntryStripChars) \notin SelectNames(ls)

\* on_add_btn_clicked._confirm, line 244: the name that is stored.
AddName(text) == lstrip(rstrip(text, Whitespace), Whitespace)

\* on_add_btn_clicked, lines 250-266: a new dialog with an empty entry is
\* presented, its "add" response disabled.
OpenDialog ==
    /\ ~dialog.open
    /\ dialog' = [open |-> TRUE, text |-> <<>>, add_enabled |-> FALSE]
    /\ last' = [LastBase EXCEPT !.op = "add_dialog", !.outcome = "ok"]
    /\ UNCHANGED <<lists, tasks, rows, status_visible, nextId>>

\* _entry_changed, lines 235-238: the text of the entry changes to one of the
\* given texts; the dialog keeps whether "add" is enabled for it on the store
\* as it is now.
EntryChanged(texts) ==
    \E text \in texts :
        /\ dialog.open
        /\ text # dialog.text
        /\ dialog' = [open |-> TRUE, text |-> text,
                      add_enabled |-> AddEnabled(text, get_lists_as_dicts)]
        /\ last' = [LastBase EXCEPT !.op = "entry_changed", !.outcome = "ok",
                                    !.text = text]
        /\ UNCHANGED <<lists, tasks, rows, status_visible, nextId>>

\* _confirm with the response "add" (lines 240-248), which the dialog only
\* emits while that response is enabled; _confirm itself checks nothing.
AddList ==
    /\ dialog.open
    /\ dialog.add_enabled
    /\ Len(lists) < MaxLists
    /\ nextId < MaxIds
    /\ lists' = UserData_add_list(lists, AddName(dialog.text), uuid4(nextId))
    /\ nextId' = nextId + 1
    /\ rows' = Append(rows, uuid4(nextId))
    /\ status_visible' = FALSE
    /\ dialog' = DialogClosed
    /\ last' = [LastBase EXCEPT
                  !.op = "add", !.outcome = "ok", !.log = <<"add_list", "sync">>,
                  !.existing = SelectNames(lists), !.name = AddName(dialog.text),
                  !.uid = uuid4(nextId), !.text = dialog.text]
    /\ UNCHANGED tasks

\* _confirm with the response "cancel" (lines 241-242).
AddCancelled ==
    /\ dialog.open
    /\ dialog' = DialogClosed
    /\ last' = [LastBase EXCEPT !.op = "add", !.outcome = "cancelled"]
    /\ UNCHANGED <<lists, tasks, rows, status_visible, nextId>>

\* update_ui called by another widget or by the sync.
UpdateUI ==
    /\ rows' = update_ui_rows(rows, get_lists_as_dicts)
    /\ status_visible' = update_ui_status(update_ui_rows(rows, get_lists_as_dicts))
    /\ last' = [LastBase EXCEPT !.op = "update_ui", !.outcome = "ok"]
    /\ UNCHANGED <<lists, tasks, nextId, dialog>>

\* The application is started again: __init__ builds the sidebar with _load_lists.
Restart ==
    /\ rows' = load_lists_rows(get_lists_as_dicts)
    /\ status_visible' = (Len(load_lists_rows(get_lists_as_dicts)) = 0)
    /\ dialog' = DialogClosed
    /\ last' = [LastBase EXCEPT !.op = "load_lists", !.outcome = "ok"]
    /\ UNCHANGED <<lists, tasks, nextId>>

\* The store marks a list as deleted (TaskList.deleted) and drops its tasks.
MarkDeleted ==
    \E i \in 1..Len(lists) :
        LET notOfList(t) == t.list_uid # lists[i].uid
        IN  /\ ~lists[i].deleted
            /\ lists' = [lists EXCEPT ![i].deleted = TRUE]
            /\ tasks' = SelectSeq(tasks, notOfList)
            /\ last' = [LastBase EXCEPT !.op = "mark_deleted", !.outcome = "ok",
                                        !.uid = lists[i].uid]
            /\ UNCHANGED <<rows, status_visible, nextId, dialog>>

\* The store drops the row of a list that was marked as deleted.
PurgeList ==
    \E i \in 1..Len(lists) :
        /\ lists[i].deleted
        /\ lists' = SubSeq(lists, 1, i - 1) \o SubSeq(lists, i + 1, Len(lists))
        /\ last' = [LastBase EXCEPT !.op = "purge", !.outcome = "ok",
                                    !.uid = lists[i].uid]
        /\ UNCHANGED <<tasks, rows, status_visible, nextId, dialog>>

\* The "Add List" dialog alone, with every text.
NextDialog ==
    \/ OpenDialog
    \/ EntryChanged(EntryTexts)
    \/ AddList
    \/ AddCancelled

SpecDialog == Init /\ [][NextDialog]_vars

\* List names: the dialog, and imports of documents without tasks under every
\* file name; nothing in the handlers keeps one from running while the dialog
\* is shown.
Next ==
    \/ OpenDialog
    \/ EntryChanged(PlainTexts)
    \/ AddList
    \/ AddCancelled
    \/ Import(Basenames, HeaderCalendars)
    \/ ImportCancelled

Spec == Init /\ [][Next]_vars

\* Sidebar: lists come and go in the store, update_ui and restarts follow.
NextSidebar ==
    \/ Import({<<"a">> \o DotIcs}, HeaderCalendars)
    \/ OpenDialog
    \/ EntryChanged({<<"a">>})
    \/ AddList
    \/ UpdateUI
    \/ Restart
    \/ MarkDeleted
    \/ PurgeList

SpecSidebar == Init /\ [][NextSidebar]_vars

\* Imports of every document of the model under one file name.
NextImport ==
    \/ ImportCancelled
    \/ Import({<<"a">> \o DotIcs}, TaskCalendars)

SpecImport == Init /\ [][NextImport]_vars

-----------------------------------------------------------------------------
(* Properties *)

Count(log, e) == Cardinality({ i \in 1..Len(log) : log[i] = e })

ImportStarted == last.op = "import" /\ last.outcome # "cancelled"

ImportParsed == ImportStarted /\ last.outcome # "ParseError"

ImportCreatedList == last.op = "import" /\ last.uid # ""

ImportOk == last.op = "import" /\ last.outcome = "ok"

\* The VTODOs of the document of the last import.
LastTodos == last.calendar["VTODO"]

\* The row of "tasks" that the last import stored for its j-th VTODO.
Stored(j) == tasks[last.first + j]

\* C1: no two lists that are not deleted have the same name.
C1_UniqueNames ==
    \A i, j \in 1..Len(lists) :
        (i # j /\ ~lists[i].deleted /\ ~lists[j].deleted) => lists[i].name # lists[j].name

\* C2: an import stores the candidate name n unchanged when no list has it,
\* and otherwise n, "_" and a suffix, a name that differs from n and that no
\* list had.
C2_CollisionResolved ==
    ImportCreatedList =>
        LET n       == last.candidate
            E       == last.existing
            created == lists[Len(lists)].name
        IN  /\ lists[Len(lists)].uid = last.uid
            /\ n \notin E => created = n
            /\ n \in E => /\ Len(created) = Len(n) + 2
                          /\ SubSeq(created, 1, Len(n) + 1) = n \o <<"_">>
                          /\ created # n
                          /\ created \notin E

C2_Witness ==
    /\ ImportCreatedList
    /\ last.candidate \in last.existing
    /\ lists[Len(lists)].name # last.candidate

\* C3: a step that is an import ending in a parse error changes neither the
\* lists nor the tasks of the store.
C3_ParseErrorNoMutation ==
    [][(last'.op = "import" /\ last'.outcome = "ParseError")
          => (lists' = lists /\ tasks' = tasks)]_vars

C3_Witness ==
    /\ last.op = "import"
    /\ last.outcome = "ParseError"
    /\ Len(lists) > 0
    /\ Len(tasks) > 0

\* C4: an import calls Sync.sync exactly once when it succeeds, as its last
\* call, after the list and one task per VTODO were added to the store; it
\* does not call it when it raises or when the dialog is cancelled.
C4_SyncOnceOnSuccess ==
    last.op = "import" =>
        IF last.outcome = "ok"
        THEN /\ Count(last.log, "sync") = 1
             /\ last.log[Len(last.log)] = "sync"
             /\ Count(last.log, "add_list") = 1
             /\ Count(last.log, "add_task") = Len(LastTodos)
             /\ lists[Len(lists)].uid = last.uid
             /\ Len(tasks) = last.first + Len(LastTodos)
             /\ \A j \in 1..Len(LastTodos) : Stored(j).list_uid = last.uid
        ELSE Count(last.log, "sync") = 0

C4_Witness ==
    /\ ImportOk
    /\ Len(LastTodos) = MaxTodos
    /\ Count(last.log, "sync") = 1

\* Events the notification sink received during the last handler.
Toasts == SelectSeq(last.log, LAMBDA e : e \in {"toast:Imported", "toast:Import failed"})

\* C5: an import that was started ends with exactly one event at the sink:
\* "Imported" when it succeeds, an "import failed" event when it fails.
C5_OneEvent ==
    ImportStarted =>
        /\ Len(Toasts) = 1
        /\ Toasts[1] = IF last.outcome = "ok" THEN "toast:Imported" ELSE "toast:Import failed"

\* B's RELATED-TO is the UID of A in the document of the last import.
RelatedTo(b, a) ==
    /\ "UID" \in DOMAIN LastTodos[a]
    /\ "RELATED-TO" \in DOMAIN LastTodos[b]
    /\ LastTodos[b]["RELATED-TO"] = LastTodos[a]["UID"]

\* C6 as claimed: after an import, the parent of B's task is the uid under
\* which A's task is stored whenever B's RELATED-TO equals A's UID, in either
\* document order, and a RELATED-TO that names no record is stored unchanged.
C6_ParentLinkage ==
    ImportOk =>
        /\ \A a, b \in 1..Len(LastTodos) :
              (a # b /\ RelatedTo(b, a)) => Stored(b).parent = Stored(a).uid
        /\ \A b \in 1..Len(LastTodos) :
              ("RELATED-TO" \in DOMAIN LastTodos[b]
                 /\ \A a \in 1..Len(LastTodos) : ~RelatedTo(b, a))
              => Stored(b).parent = LastTodos[b]["RELATED-TO"]

\* C6 amended: the linkage holds for every A with a non-empty UID, which is
\* stored under that very UID; every RELATED-TO is stored as it is, and the
\* uid the store generates for a record without UID is never anyone's parent.
C6_ParentLinkageNonEmptyUid ==
    ImportOk =>
        /\ \A a, b \in 1..Len(LastTodos) :
              (a # b /\ RelatedTo(b, a) /\ LastTodos[a]["UID"] # "")
              => /\ Stored(b).parent = Stored(a).uid
                 /\ Stored(a).uid = LastTodos[a]["UID"]
        /\ \A b \in 1..Len(LastTodos) :
              Stored(b).parent = Get(LastTodos[b], "RELATED-TO", "")
        /\ \A a, b \in 1..Len(LastTodos) :
              TaskNeedsUid(LastTodos[a]) => Stored(b).parent # Stored(a).uid

C6_Witness ==
    /\ ImportOk
    /\ LastTodos = <<TodoB, TodoA>>
    /\ Stored(1).parent = Stored(2).uid

\* C7: the stored priority and percent_complete are never negative, are 0
\* for a field that is absent or no integer, and no import raises because of
\* such a field.
C7_NumericFailClosed ==
    /\ \A i \in 1..Len(tasks) : tasks[i].priority >= 0 /\ tasks[i].percent_complete >= 0
    /\ ImportStarted =>
          /\ last.outcome # "ValueError"
          /\ \A j \in 1..last.done :
                /\ ~("PRIORITY" \in DOMAIN LastTodos[j]
                       /\ LastTodos[j]["PRIORITY"] \in DOMAIN IntLiterals)
                     => Stored(j).priority = 0
                /\ ~("PERCENT-COMPLETE" \in DOMAIN LastTodos[j]
                       /\ LastTodos[j]["PERCENT-COMPLETE"] \in DOMAIN IntLiterals)
                     => Stored(j).percent_complete = 0

\* The base name of the last import without its last four characters, ".ics".
LastStem == SubSeq(last.basename, 1, Len(last.basename) - Len(DotIcs))

\* C8: the candidate name is the declared X-WR-CALNAME, and without one it is
\* the base name of the file with just the extension ".ics" removed.
C8_CandidateName ==
    ImportParsed =>
        last.candidate = IF "X-WR-CALNAME" \in DOMAIN last.calendar
                         THEN last.calendar["X-WR-CALNAME"]
                         ELSE LastStem

\* C9: a step that is an import in which the k-th add_task fails keeps the
\* store as it was, plus the new list, plus the tasks of the VTODOs 1..k-1 in
\* document order under the new list's uid, and nothing else; the handler ends
\* with the error, without the calls that follow a successful loop.
C9_CommittedPrefix ==
    [][(last'.op = "import" /\ last'.outcome = "StoreError" /\ last'.failAt >= 1)
          => LET k     == last'.failAt
                 todos == last'.calendar["VTODO"]
             IN  /\ lists' = UserData_add_list(lists, last'.name, last'.uid)
                 /\ Len(tasks') = Len(tasks) + k - 1
                 /\ SubSeq(tasks', 1, Len(tasks)) = tasks
                 /\ \A j \in 1..(k - 1) :
                       /\ tasks'[Len(tasks) + j].list_uid = last'.uid
                       /\ tasks'[Len(tasks) + j].text = todos[j]["SUMMARY"]
                 /\ last'.log = <<"add_list">> \o [j \in 1..(k - 1) |-> "add_task"]
      ]_vars

C9_Witness ==
    /\ last.op = "import"
    /\ last.outcome = "StoreError"
    /\ last.failAt = MaxTodos
    /\ Len(tasks) = last.first + MaxTodos - 1
    /\ last.first > 0

\* The sidebar was rebuilt by update_ui and the store has not changed since.
UiFresh == last.op = "update_ui" \/ ImportOk

\* C10: after update_ui the rows are the lists of the store, one row each,
\* the status page is visible iff there is no row, and the rows are those
\* that _load_lists builds from the same store.
C10_SidebarMatchesStore ==
    UiFresh =>
        /\ Range(rows) = Range(UidsOf(get_lists_as_dicts))
        /\ Cardinality(Range(rows)) = Len(rows)
        /\ status_visible = (Len(rows) = 0)
        /\ Range(rows) = Range(load_lists_rows(get_lists_as_dicts))

====
